---- MODULE Spec2Model ----
(***************************************************************************)
(* Model of news_app.py.  The recommendation engine,                       *)
(* get_personalized_recommendations (keyword overlap scoring, recency      *)
(* boost, ranking, backfill), together with the activity store it reads:   *)
(* Spec, SpecRank and SpecProfile run one call, SpecConcurrent runs it     *)
(* beside a call that shares its list, SpecFeed runs it on the candidates  *)
(* fetch_news returns.  SpecStore runs track_user_activity and             *)
(* get_user_activity on the activity collection.  SpecSession runs the     *)
(* view tracking of a browsing session (display_article and the two pages  *)
(* that call it), SpecAuth the auth form, SpecAccount the script runs of a *)
(* browser session in which users log in and out, SpecNotify the           *)
(* notification panel of one logged-in session.                            *)
(*                                                                         *)
(* Units.  Publication times are counted in half-day ticks, time.time()    *)
(* in seconds.  Scores are counted in half-points, because the source adds *)
(* 1.5 to a score.                                                         *)
(***************************************************************************)
EXTENDS Integers, Sequences, FiniteSets, TLC

(***************************************************************************)
(* Bounds of the model.                                                    *)
(***************************************************************************)
MaxBase  == 2    \* freely chosen articles at the head of the candidate pool
MaxAct   == 1    \* interactions in the user's activity log
MaxRank  == 2    \* freely chosen articles of a pool of the ranking specification
MaxHist  == 2    \* interactions in the log of the ranking specification
MaxRuns  == 3    \* script runs of one browsing session
MaxShown == 2    \* articles shown by one feed or one search result list
SmallPad == 4    \* a pool padded to about min_recommendations
LargePad == 14   \* a pool padded beyond DEFAULT_PAGE_SIZE
NOW      == 40   \* datetime.now(timezone.utc), in half-day ticks
MaxDocs  == 2    \* documents written to the activity collection
MaxLimit == 2    \* the largest limit a caller passes to get_user_activity
MaxCategories == 2  \* preferred categories the panel fetches a headline for
StartClock == 240  \* time.time() when the browser session starts, in seconds
MaxClock == 510    \* time.time() when the model stops the clock, in seconds

(***************************************************************************)
(* Program constants.                                                      *)
(***************************************************************************)
DEFAULT_PAGE_SIZE   == 15
min_recommendations == 5
activity_limit      == 100
KEYWORD_MIN_LEN     == 4     \* \b\w{4,}\b
LIKE_WEIGHT         == 5
SAVE_WEIGHT         == 3
VIEW_WEIGHT         == 1
BOOST_LAST_DAY      == 3
BOOST_LAST_3_DAYS_HALVES == 3   \* the boost 1.5, in half-points
ONE_DAY             == 1     \* timedelta(days=1)
THREE_DAYS          == 3     \* timedelta(days=3)
CHECK_INTERVAL_SECONDS == 180
MIN_PASSWORD_LEN    == 6     \* len(password) < 6

(***************************************************************************)
(* Python values.  A dict entry is a tagged value: the key is absent, the  *)
(* value is None, a string (a sequence of words, joined by blanks), or a   *)
(* string holding an ISO-8601 timestamp, with "Z" offset or without any.   *)
(***************************************************************************)
Absent      == [tag |-> "absent", s |-> << >>, t |-> 0]
None        == [tag |-> "None",   s |-> << >>, t |-> 0]
Str(ws)     == [tag |-> "str",    s |-> ws,    t |-> 0]
IsoZ(t)     == [tag |-> "isoZ",   s |-> << >>, t |-> t]
IsoNaive(t) == [tag |-> "isoNaive", s |-> << >>, t |-> t]

\* dict.get(key) of an entry: None for an absent key
Get(v) == IF v.tag = "absent" THEN None ELSE v

\* the truth value of an entry read by dict.get
Truthy(v) == v.tag \in {"isoZ", "isoNaive"} \/ (v.tag = "str" /\ v.s # << >>)

(***************************************************************************)
(* The article dicts.  A Python list holds references to dict objects, and *)
(* the engine never changes a dict: an article is modelled by the identity *)
(* of its dict, and Dict gives the dict's entries.  BaseDicts are the       *)
(* articles a pool is freely composed of; the dicts after them are padding *)
(* articles: old, each with a url of its own, later ones published later.  *)
(***************************************************************************)
Article(u, t, d, p) == [url |-> u, title |-> t, description |-> d, publishedAt |-> p]

Url(u) == Str(<< u >>)

BaseDicts ==
    << Article(Url("u1"), Str(<<"Rocket", "launch">>), None,   IsoZ(NOW - 30)),
       Article(Url("u1"), Str(<<"rocket">>), Str(<<"news">>),  IsoZ(NOW - 4)),
       Article(Url("u2"), Str(<<"bakery", "opens">>), Absent,  IsoZ(NOW)),
       Article(Url("u4"), Str(<<"AI", "is", "up">>), None,     IsoZ(NOW - 10)),
       Article(Url("u5"), None, Absent,                        IsoZ(NOW - 1)),
       Article(Absent,    Str(<<"rocket">>), None,             IsoZ(NOW - 12)),
       Article(Url("u6"), Str(<<"bakery">>), None,             None),
       Article(Url("u7"), Str(<<"rocket">>), None,             Absent),
       Article(Url("u8"), Str(<<"bakery">>), None,             Str(<<"yesterday">>)) >>

Articles == 1..Len(BaseDicts)

\* Well-formed articles for the study of the ranking: pairs with one
\* publication time and different text, pairs with one text and different
\* ages (today, 2 days, 2.5 days, 20 days), and dates that do not parse.
RankDicts ==
    << Article(Url("r1"), Str(<<"Rocket", "launch", "today">>), None,  IsoZ(NOW)),
       Article(Url("r2"), Str(<<"Local", "bakery", "opens">>), Absent, IsoZ(NOW)),
       Article(Url("r3"), Str(<<"rocket">>), None,                     IsoZ(NOW - 40)),
       Article(Url("r4"), Str(<<"bakery">>), None,                     IsoZ(NOW - 40)),
       Article(Url("r5"), Str(<<"bakery">>), None,                     IsoZ(NOW - 5)),
       Article(Url("r6"), Str(<<"bakery">>), None,                     IsoZ(NOW - 4)),
       Article(Url("r7"), Str(<<"bakery">>), None,                     Str(<< >>)),
       Article(Url("r8"), Str(<<"bakery">>), None,                     IsoNaive(NOW)) >>

RankArticles == (Len(BaseDicts) + 1)..(Len(BaseDicts) + Len(RankDicts))

Filler(i) == Article(Url("f" \o ToString(i)), Str(<<"daily", "news">>), None, IsoZ(i))

FillerDicts == [ i \in 1..LargePad |-> Filler(i) ]

\* the identity of the i-th padding dict
FillerId(i) == Len(BaseDicts) + Len(RankDicts) + i

\* entries of a NewsAPI response that fetch_news has to drop: the
\* placeholder of a removed article, and articles whose url is null or
\* empty; their identities are the negative numbers
RawDicts ==
    << Article(Url("n1"), Str(<<"[Removed]">>), Str(<<"[Removed]">>), IsoZ(NOW)),
       Article(None,      Str(<<"bakery">>),    None,                 IsoZ(NOW)),
       Article(Str(<< >>), Str(<<"bakery">>),   None,                 IsoZ(NOW)) >>

Dict(article) ==
    IF article < 0 THEN RawDicts[-article]
    ELSE IF article <= Len(BaseDicts) THEN BaseDicts[article]
    ELSE IF article <= Len(BaseDicts) + Len(RankDicts) THEN RankDicts[article - Len(BaseDicts)]
    ELSE FillerDicts[article - Len(BaseDicts) - Len(RankDicts)]

Min(a, b) == IF a <= b THEN a ELSE b

\* s[:n]
Take(s, n) == SubSeq(s, 1, Min(n, Len(s)))

\* x.get(k, '') or ''   for the text fields: absent, None and '' all give ''
TextOrEmpty(v) == IF v.tag = "str" THEN v.s ELSE << >>

\* str.lower(), word by word
Lower(w) ==
    CASE w = "Rocket" -> "rocket"
      [] w = "AI"     -> "ai"
      [] w = "Local"  -> "local"
      [] OTHER        -> w

\* keyword_regex.findall(text.lower()) as a set: the words of 4+ letters
keyword_regex_findall(words) ==
    { Lower(words[i]) : i \in { j \in 1..Len(words) : Len(Lower(words[j])) >= KEYWORD_MIN_LEN } }

\* f"{title or ''} {description or ''}".lower(), as the sequence of its words
text_content(title, description) == TextOrEmpty(title) \o TextOrEmpty(description)

article_text(article) == text_content(Dict(article).title, Dict(article).description)

activity_text(activity) == text_content(activity.article_title, activity.article_description)

(***************************************************************************)
(* Sorting.  list.sort(key=..., reverse=True) is stable: elements with     *)
(* equal keys keep their order.  keys[i] is the key of s[i].               *)
(***************************************************************************)
\* the indices of s ordered by key descending, equal keys by position
StableSortDesc(s, keys) ==
    LET k   == keys
        ord == SortSeq([ i \in 1..Len(s) |-> i ],
                       LAMBDA i, j : k[i] > k[j] \/ (k[i] = k[j] /\ i < j))
    IN  [ p \in 1..Len(s) |-> s[ord[p]] ]

\* the key with a default that sorts above every timestamp
PublishedAtKey_MissingHigh(article) ==
    LET p == Dict(article).publishedAt IN
    CASE p.tag = "isoZ"     -> 2 * p.t + 2
      [] p.tag = "isoNaive" -> 2 * p.t + 1
      [] p.tag = "str"      -> IF p.s = << >> THEN 0 ELSE 2 * NOW + 1000
      [] OTHER              -> 2 * NOW + 2000

\* x.get('publishedAt', '') as a sort key: Python compares the strings.
\* '' is lowest, ISO timestamps of one format order by time (a timestamp
\* without offset is a proper prefix of the same instant with "Z"), and text
\* starting with a letter is above every digit.  None has no order.
PublishedAtKey(article) ==
    LET p == Dict(article).publishedAt IN
    CASE p.tag = "isoZ"     -> 2 * p.t + 2
      [] p.tag = "isoNaive" -> 2 * p.t + 1
      [] p.tag = "str"      -> IF p.s = << >> THEN 0 ELSE 2 * NOW + 1000
      [] OTHER              -> 0

PublishedAtKeys(s) == [ i \in 1..Len(s) |-> PublishedAtKey(s[i]) ]

\* comparing None with a string (or with None) raises TypeError; a list of
\* fewer than two elements is never compared
SortRaises(s) ==
    Len(s) >= 2 /\ \E i \in 1..Len(s) : Dict(s[i]).publishedAt.tag = "None"

SortByPublishedAtDesc(s) == StableSortDesc(s, PublishedAtKeys(s))

\* what list.sort leaves in the list when a comparison raised: the elements
\* after the last None key may already be in order, the rest is untouched
InterruptedSort(s) ==
    LET last == CHOOSE i \in 1..Len(s) :
                   /\ Dict(s[i]).publishedAt.tag = "None"
                   /\ \A j \in (i+1)..Len(s) : Dict(s[j]).publishedAt.tag # "None"
    IN  { s, SubSeq(s, 1, last) \o SortByPublishedAtDesc(SubSeq(s, last + 1, Len(s))) }

(***************************************************************************)
(* The activity store.  get_user_activity returns the newest `limit`       *)
(* records of the log, and the empty list for an empty user id or when the *)
(* store raises.                                                           *)
(***************************************************************************)
\* the query without .limit(limit)
get_user_activity_Unlimited(uid, log, limit, store_ok) ==
    IF uid = "" THEN << >>
    ELSE IF ~store_ok THEN << >>
    ELSE log

get_user_activity(uid, log, limit, store_ok) ==
    IF uid = "" THEN << >>
    ELSE IF ~store_ok THEN << >>
    ELSE Take(log, limit)

(***************************************************************************)
(* Scoring of one article (lines 672-702).                                 *)
(***************************************************************************)
\* the article is skipped: no text, or no keyword in it
Skipped(article) == keyword_regex_findall(article_text(article)) = {}

\* the overlap score without the liked keywords
OverlapScore_NoLike(article, liked, saved, viewed) ==
    LET kw == keyword_regex_findall(article_text(article)) IN
    2 * ( Cardinality(kw \cap saved)  * SAVE_WEIGHT
        + Cardinality(kw \cap viewed) * VIEW_WEIGHT )

\* the keyword overlap part of the score, in half-points
OverlapScore(article, liked, saved, viewed) ==
    LET kw == keyword_regex_findall(article_text(article)) IN
    2 * ( Cardinality(kw \cap liked)  * LIKE_WEIGHT
        + Cardinality(kw \cap saved)  * SAVE_WEIGHT
        + Cardinality(kw \cap viewed) * VIEW_WEIGHT )

\* article.get('publishedAt','').replace(...): None has no replace
DateRaises(article) == Dict(article).publishedAt.tag = "None"

\* a score without boost for recent articles
RecencyBoost_None(article, now) == 0

\* the try block, in half-points (a day is two ticks): fromisoformat raises ValueError for '' and for text that is
\* no timestamp, the subtraction raises TypeError for a timestamp without
\* offset; both are caught and give no boost
RecencyBoost(article, now) ==
    LET p == Dict(article).publishedAt IN
    IF p.tag = "isoZ"
    THEN IF now - p.t < 2 * ONE_DAY THEN 2 * BOOST_LAST_DAY
         ELSE IF now - p.t < 2 * THREE_DAYS THEN BOOST_LAST_3_DAYS_HALVES
         ELSE 0
    ELSE 0

ArticleScore(article, liked, saved, viewed, now) ==
    OverlapScore(article, liked, saved, viewed) + RecencyBoost(article, now)

\* s filtered by a set of kept indices, order kept
RECURSIVE SelectSeq2(_, _, _)
SelectSeq2(s, keep, i) ==
    IF i > Len(s) THEN << >>
    ELSE (IF i \in keep THEN << s[i] >> ELSE << >>) \o SelectSeq2(s, keep, i + 1)

Filter(s, keep) == SelectSeq2(s, keep, 1)

\* the scoring loop over all_articles: the list of (score, article)
ScoredArticles(articles, liked, saved, viewed, now) ==
    LET kept == Filter(articles, { i \in 1..Len(articles) : ~Skipped(articles[i]) })
    IN  [ i \in 1..Len(kept) |->
            [score |-> ArticleScore(kept[i], liked, saved, viewed, now), article |-> kept[i]] ]

\* the loop raises AttributeError at the first scored article whose
\* publishedAt is None
ScoringRaises(articles) ==
    \E i \in 1..Len(articles) : ~Skipped(articles[i]) /\ DateRaises(articles[i])

\* the keywords of the activities, the dislikes not recorded
KeywordsOf_DislikeDropped(activity, action) ==
    IF action = "dislike" THEN {}
    ELSE UNION { keyword_regex_findall(activity_text(activity[i])) :
                   i \in { j \in 1..Len(activity) : activity[j].action_type = action } }

\* the keywords of all activities of one action type
KeywordsOf(activity, action) ==
    UNION { keyword_regex_findall(activity_text(activity[i])) :
              i \in { j \in 1..Len(activity) : activity[j].action_type = action } }

\* the keyword sets with the disliked keywords counted as liked ones
Profile_DislikeAsLike(activity) ==
    LET disliked == KeywordsOf(activity, "dislike") IN
    [ liked    |-> KeywordsOf(activity, "like") \cup disliked,
      saved    |-> KeywordsOf(activity, "save") \ disliked,
      viewed   |-> KeywordsOf(activity, "view") \ disliked,
      disliked |-> disliked ]

\* the four keyword sets after the loop over the activity, the disliked
\* keywords taken out of the three positive sets (lines 644-666)
Profile(activity) ==
    LET disliked == KeywordsOf(activity, "dislike") IN
    [ liked    |-> KeywordsOf(activity, "like") \ disliked,
      saved    |-> KeywordsOf(activity, "save") \ disliked,
      viewed   |-> KeywordsOf(activity, "view") \ disliked,
      disliked |-> disliked ]

\* a sort by score that reverses the candidates of equal score
SortByScoreDesc_TiesReversed(scored) ==
    LET ord == SortSeq([ i \in 1..Len(scored) |-> i ],
                       LAMBDA i, j : scored[i].score > scored[j].score
                                     \/ (scored[i].score = scored[j].score /\ i > j))
    IN  [ p \in 1..Len(scored) |-> scored[ord[p]] ]

\* scored_articles.sort(reverse=True, key=lambda x: x[0])
SortByScoreDesc(scored) == StableSortDesc(scored, [ i \in 1..Len(scored) |-> scored[i].score ])

\* the filter with the candidates of score 0 let through
PositiveArticles_NonNegative(scored) ==
    LET kept == Filter(scored, { i \in 1..Len(scored) : scored[i].score >= 0 })
    IN  [ i \in 1..Len(kept) |-> kept[i].article ]

\* [article for score, article in scored_articles if score > 0]
PositiveArticles(scored) ==
    LET kept == Filter(scored, { i \in 1..Len(scored) : scored[i].score > 0 })
    IN  [ i \in 1..Len(kept) |-> kept[i].article ]

\* article['url'] raises KeyError when the key is absent
UrlRaises(article) == Dict(article).url.tag = "absent"

\* [article for score, article in scored_articles if article['url'] not in recommended_urls]
RemainingArticles(scored, recommended) ==
    LET recommended_urls == { Dict(recommended[i]).url : i \in 1..Len(recommended) }
        kept == Filter(scored, { i \in 1..Len(scored) : Dict(scored[i].article).url \notin recommended_urls })
    IN  [ i \in 1..Len(kept) |-> kept[i].article ]

(***************************************************************************)
(* The inputs.                                                             *)
(***************************************************************************)
Interaction(u, t, d, a) ==
    [article_url |-> u, article_title |-> t, article_description |-> d, action_type |-> a]

Interactions ==
    { Interaction(Url("u1"), Str(<<"Rocket", "launch">>), None, "like"),
      Interaction(Url("u1"), Str(<<"rocket">>), None, "dislike"),
      Interaction(Url("u2"), Str(<<"bakery">>), Str(<<"opens">>), "view"),
      Interaction(Url("f1"), Str(<<"daily", "news">>), None, "save"),
      Interaction(Url("u5"), None, Absent, "like") }

SeqsUpTo(S, n) == UNION { [1..k -> S] : k \in 0..n }

\* the lists of up to n elements of S that repeat no element
DistinctSeqsUpTo(S, n) ==
    { l \in SeqsUpTo(S, n) : \A i, j \in 1..Len(l) : i # j => l[i] # l[j] }

PadCounts == {0, SmallPad, LargePad}

UserIds == {"", "alice"}

(***************************************************************************)
(* State.                                                                  *)
(***************************************************************************)
VARIABLES
    user_id,              \* argument: "" is an absent user id
    all_articles,         \* argument: the caller's list object
    candidate_pool,       \* the list as it was passed (history)
    activity_log,         \* the user's records in the store, newest first
    pc,                   \* position in get_personalized_recommendations
    user_activity,
    liked_keywords, saved_keywords, viewed_keywords, disliked_keywords,
    scored_articles,
    recommended_articles,
    result,               \* the returned list
    end_line,             \* the line of the return or raise that ended the call (0: running)
    exc,                  \* the exception that left the call ("": none)
    session_state,        \* st.session_state: the key view_tracked and its set of urls
    view_records,         \* "view" records written to the activity log in this session, per url
    runs,                 \* renders of main_app in the session so far
    accounts,             \* Firebase Authentication: the e-mail addresses that have an account
    submission,           \* the last submission of the auth form and the exception it met (history)
    notification_state,   \* st.session_state: the keys last_notification_check and current_notification_article
    clock,                \* time.time(), in seconds
    panel_log,            \* the runs of the notification panel with notifications enabled: the user,
                          \* the time, whether it checked, what the check fetched (history)
    activity_docs,        \* Firestore: the documents of the activity collections of all users
    call                  \* the last call of the store functions, with its arguments and result (history)

vars == << user_id, all_articles, candidate_pool, activity_log, pc, user_activity,
           liked_keywords, saved_keywords, viewed_keywords, disliked_keywords,
           scored_articles, recommended_articles, result, end_line, exc,
           session_state, view_records, runs,
           accounts, submission, notification_state, clock, panel_log, activity_docs, call >>

sessionVars == << session_state, view_records, runs >>

accountVars == << accounts, submission, notification_state, clock, panel_log >>

storeVars == << activity_docs, call >>

locals == << user_activity, liked_keywords, saved_keywords, viewed_keywords,
             disliked_keywords, scored_articles, recommended_articles >>

\* the call has not started
InitCall ==
    /\ candidate_pool = all_articles
    /\ pc = "start"
    /\ user_activity = << >>
    /\ liked_keywords = {} /\ saved_keywords = {}
    /\ viewed_keywords = {} /\ disliked_keywords = {}
    /\ scored_articles = << >>
    /\ recommended_articles = << >>
    /\ result = << >>
    /\ end_line = 0
    /\ exc = ""

\* the urls of the articles a session is shown
SessionUrls == {"s1", "s2", "s3"}

\* a session that has not shown an article yet
InitSessionState ==
    /\ session_state = [has_view_tracked |-> FALSE, view_tracked |-> {}]
    /\ view_records = [ u \in SessionUrls |-> 0 ]
    /\ runs = 0

\* e-mail addresses and passwords are strings of characters
AliceEmail == << "a", "@", "x", ".", "y" >>
BobEmail   == << "b", "@", "x", ".", "y" >>

\* user.uid of the account of an e-mail address
Uid(email) == IF email = AliceEmail THEN "alice" ELSE "bob"

NoSubmission == [choice |-> "", email |-> << >>, password |-> << >>, raised |-> ""]

\* a browser session before its first script run: st.session_state is
\* empty; one account exists
InitAccountState ==
    /\ accounts = {AliceEmail}
    /\ submission = NoSubmission
    /\ notification_state = [has_last_check |-> FALSE, last_notification_check |-> 0,
                             has_current |-> FALSE,
                             current_notification_article |->
                                 [tag |-> "None", url |-> None, publishedAt |-> None, for_user |-> ""]]
    /\ clock = StartClock
    /\ panel_log = << >>

NoCall == [op |-> ""]

\* an empty activity collection
InitStoreState ==
    /\ activity_docs = {}
    /\ call = NoCall

Init ==
    /\ user_id \in UserIds
    /\ activity_log \in SeqsUpTo(Interactions, MaxAct)
    /\ user_id = "" => activity_log = << >>      \* the store holds no log of an absent user
    /\ \E base \in SeqsUpTo(Articles, MaxBase), n \in PadCounts :
          all_articles = base \o [ i \in 1..n |-> FillerId(i) ]
    /\ InitCall
    /\ InitSessionState
    /\ InitAccountState
    /\ InitStoreState

\* lines 625-626
EarlyReturn ==
    /\ pc = "start"
    /\ user_id = "" \/ all_articles = << >>
    /\ result' = all_articles
    /\ end_line' = 626
    /\ pc' = "done"
    /\ UNCHANGED << user_id, all_articles, candidate_pool, activity_log, locals, exc >>
    /\ UNCHANGED << sessionVars, accountVars, storeVars >>

\* lines 628-632
NoActivityFallback ==
    /\ pc = "start"
    /\ ~(user_id = "" \/ all_articles = << >>)
    /\ \E store_ok \in BOOLEAN :
          /\ get_user_activity(user_id, activity_log, activity_limit, store_ok) = << >>
          /\ user_activity' = << >>
    /\ IF SortRaises(all_articles)
       THEN /\ all_articles' \in InterruptedSort(all_articles)
            /\ exc' = "TypeError"
            /\ end_line' = 631
            /\ pc' = "raised"
            /\ UNCHANGED result
       ELSE /\ all_articles' = SortByPublishedAtDesc(all_articles)
            /\ result' = Take(all_articles', DEFAULT_PAGE_SIZE)
            /\ end_line' = 632
            /\ pc' = "done"
            /\ exc' = exc
    /\ UNCHANGED << user_id, candidate_pool, activity_log, liked_keywords, saved_keywords,
                    viewed_keywords, disliked_keywords, scored_articles, recommended_articles >>
    /\ UNCHANGED << sessionVars, accountVars, storeVars >>

\* lines 628-666
ExtractKeywords ==
    /\ pc = "start"
    /\ ~(user_id = "" \/ all_articles = << >>)
    /\ \E store_ok \in BOOLEAN :
          /\ get_user_activity(user_id, activity_log, activity_limit, store_ok) # << >>
          /\ user_activity' = get_user_activity(user_id, activity_log, activity_limit, store_ok)
    /\ disliked_keywords' = Profile(user_activity').disliked
    /\ liked_keywords'  = Profile(user_activity').liked
    /\ saved_keywords'  = Profile(user_activity').saved
    /\ viewed_keywords' = Profile(user_activity').viewed
    /\ pc' = "score"
    /\ UNCHANGED << user_id, all_articles, candidate_pool, activity_log, scored_articles,
                    recommended_articles, result, end_line, exc >>
    /\ UNCHANGED << sessionVars, accountVars, storeVars >>

\* lines 668-702
ScoreArticles ==
    /\ pc = "score"
    /\ IF ScoringRaises(all_articles)
       THEN /\ exc' = "AttributeError"
            /\ end_line' = 688
            /\ pc' = "raised"
            /\ UNCHANGED scored_articles
       ELSE /\ scored_articles' = ScoredArticles(all_articles, liked_keywords, saved_keywords,
                                                 viewed_keywords, NOW)
            /\ pc' = "rank"
            /\ UNCHANGED << exc, end_line >>
    /\ UNCHANGED << user_id, all_articles, candidate_pool, activity_log, user_activity,
                    liked_keywords, saved_keywords, viewed_keywords, disliked_keywords,
                    recommended_articles, result >>
    /\ UNCHANGED << sessionVars, accountVars, storeVars >>

\* lines 704-710
RankAndFilter ==
    /\ pc = "rank"
    /\ scored_articles' = SortByScoreDesc(scored_articles)
    /\ recommended_articles' = PositiveArticles(scored_articles')
    /\ pc' = "fill"
    /\ UNCHANGED << user_id, all_articles, candidate_pool, activity_log, user_activity,
                    liked_keywords, saved_keywords, viewed_keywords, disliked_keywords,
                    result, end_line, exc >>
    /\ UNCHANGED << sessionVars, accountVars, storeVars >>

\* lines 712-726, the branch taken
Backfill ==
    /\ pc = "fill"
    /\ Len(recommended_articles) < min_recommendations
    /\ LET needed == min_recommendations - Len(recommended_articles) IN
       IF \E i \in 1..Len(scored_articles) : UrlRaises(scored_articles[i].article)
       THEN /\ exc' = "KeyError"
            /\ end_line' = 716
            /\ pc' = "raised"
            /\ UNCHANGED << recommended_articles, result >>
       ELSE LET remaining_articles == RemainingArticles(scored_articles, recommended_articles) IN
            IF SortRaises(remaining_articles)
            THEN /\ exc' = "TypeError"
                 /\ end_line' = 720
                 /\ pc' = "raised"
                 /\ UNCHANGED << recommended_articles, result >>
            ELSE /\ recommended_articles' =
                       recommended_articles \o Take(SortByPublishedAtDesc(remaining_articles), needed)
                 /\ result' = Take(recommended_articles', DEFAULT_PAGE_SIZE)
                 /\ end_line' = 726
                 /\ pc' = "done"
                 /\ exc' = exc
    /\ UNCHANGED << user_id, all_articles, candidate_pool, activity_log, user_activity,
                    liked_keywords, saved_keywords, viewed_keywords, disliked_keywords,
                    scored_articles >>
    /\ UNCHANGED << sessionVars, accountVars, storeVars >>

\* lines 713 and 725-726, the branch not taken
ReturnTop ==
    /\ pc = "fill"
    /\ ~(Len(recommended_articles) < min_recommendations)
    /\ result' = Take(recommended_articles, DEFAULT_PAGE_SIZE)
    /\ end_line' = 726
    /\ pc' = "done"
    /\ UNCHANGED << user_id, all_articles, candidate_pool, activity_log, locals, exc >>
    /\ UNCHANGED << sessionVars, accountVars, storeVars >>

Next ==
    \/ EarlyReturn
    \/ NoActivityFallback
    \/ ExtractKeywords
    \/ ScoreArticles
    \/ RankAndFilter
    \/ Backfill
    \/ ReturnTop

Spec == Init /\ [][Next]_vars

(***************************************************************************)
(* The ranking specification: the same call, on pools of well-formed       *)
(* articles and on logs of up to MaxHist interactions, several of them on  *)
(* one article.  A record of the log carries the url, title and            *)
(* description of the article it was written for (lines 515-524).  The     *)
(* pools and logs of this specification repeat no element.                 *)
(***************************************************************************)
RankInteractions ==
    { Interaction(Url("r1"), Str(<<"Rocket", "launch", "today">>), None, "like"),
      Interaction(Url("r1"), Str(<<"Rocket", "launch", "today">>), None, "dislike"),
      Interaction(Url("r1"), Str(<<"Rocket", "launch", "today">>), None, "view"),
      Interaction(Url("r4"), Str(<<"bakery">>), None, "view"),
      Interaction(Url("f1"), Str(<<"daily", "news">>), None, "save") }

InitRank ==
    /\ user_id = "alice"
    /\ activity_log \in DistinctSeqsUpTo(RankInteractions, MaxHist)
    /\ \E base \in DistinctSeqsUpTo(RankArticles, MaxRank), n \in {0, SmallPad} :
          all_articles = base \o [ i \in 1..n |-> FillerId(i) ]
    /\ InitCall
    /\ InitSessionState
    /\ InitAccountState
    /\ InitStoreState

SpecRank == InitRank /\ [][Next]_vars

(***************************************************************************)
(* Concurrent calls.  The call of the model runs while another call, for a *)
(* user without activity, was passed the same list object: the other call  *)
(* sorts the list in place at line 631.  get_user_activity waits for the   *)
(* store, so the sort can fall between any two steps of the call.          *)
(***************************************************************************)
\* lines 628-632 of another call in flight on the same list object
ConcurrentNoActivitySort ==
    /\ pc \in {"score", "rank", "fill"}
    /\ IF SortRaises(all_articles)
       THEN all_articles' \in InterruptedSort(all_articles)
       ELSE all_articles' = SortByPublishedAtDesc(all_articles)
    /\ UNCHANGED << user_id, candidate_pool, activity_log, pc, locals, result, end_line, exc >>
    /\ UNCHANGED << sessionVars, accountVars, storeVars >>

InitConcurrent ==
    /\ user_id = "alice"
    /\ activity_log \in DistinctSeqsUpTo(RankInteractions, MaxAct)
    /\ \E base \in DistinctSeqsUpTo(RankArticles, MaxRank), n \in {0, SmallPad} :
          all_articles = base \o [ i \in 1..n |-> FillerId(i) ]
    /\ InitCall
    /\ InitSessionState
    /\ InitAccountState
    /\ InitStoreState

NextConcurrent ==
    \/ EarlyReturn
    \/ NoActivityFallback
    \/ ExtractKeywords
    \/ ScoreArticles
    \/ RankAndFilter
    \/ Backfill
    \/ ReturnTop
    \/ ConcurrentNoActivitySort

SpecConcurrent == InitConcurrent /\ [][NextConcurrent]_vars

\* what a call that does not raise returns for a list and the activity it
\* read, when no other call touches the list (lines 628-726)
ReturnedAlone(articles, activity) ==
    IF activity = << >>
    THEN Take(SortByPublishedAtDesc(articles), DEFAULT_PAGE_SIZE)
    ELSE LET profile     == Profile(activity)
             scored      == SortByScoreDesc(ScoredArticles(articles, profile.liked, profile.saved,
                                                           profile.viewed, NOW))
             recommended == PositiveArticles(scored)
             needed      == min_recommendations - Len(recommended)
         IN  IF Len(recommended) < min_recommendations
             THEN Take(recommended
                         \o Take(SortByPublishedAtDesc(RemainingArticles(scored, recommended)), needed),
                       DEFAULT_PAGE_SIZE)
             ELSE Take(recommended, DEFAULT_PAGE_SIZE)

(***************************************************************************)
(* The browsing session.  One script run of a logged-in session renders    *)
(* main_app: the feed tab and, when the search form was submitted, the     *)
(* search results.  An article is shown by display_article, which writes a *)
(* "view" record for a url that is not in st.session_state.view_tracked.   *)
(* A shown article is modelled by its url, "" for a dict without url; the  *)
(* lists shown repeat no article.                                          *)
(***************************************************************************)
valid_actions == {"view", "save", "like", "dislike"}

\* track_user_activity, on the count of "view" records per url: invalid
\* data and an unknown action write nothing, and neither does a store that
\* raises (the exception is caught)
track_user_activity(uid, url, action_type, records, store_ok) ==
    IF uid = "" \/ url = "" THEN records
    ELSE IF action_type \notin valid_actions THEN records
    ELSE IF store_ok /\ action_type = "view" THEN [records EXCEPT ![url] = @ + 1]
    ELSE records

\* display_article, lines 734-736 and 829-834; st is the pair of the
\* session state and the view records
display_article(url, uid, st, store_ok) ==
    IF url = "" \/ uid = "" THEN st
    ELSE LET tracked == IF st.session.has_view_tracked THEN st.session.view_tracked ELSE {}
         IN  [ session |-> [has_view_tracked |-> TRUE, view_tracked |-> tracked \cup {url}],
               records |-> IF url \notin tracked
                           THEN track_user_activity(uid, url, "view", st.records, store_ok)
                           ELSE st.records ]

\* for article in articles: display_article(article, user_id, ...)
RECURSIVE DisplayAll(_, _, _, _, _)
DisplayAll(articles, i, uid, st, store_ok) ==
    IF i > Len(articles) THEN st
    ELSE DisplayAll(articles, i + 1, uid, display_article(articles[i], uid, st, store_ok), store_ok)

\* display_regular_news_feed, lines 1545-1570: a feed with articles resets
\* view_tracked to the empty set, then shows the articles
display_regular_news_feed(articles, uid, st, store_ok) ==
    IF articles = << >> THEN st
    ELSE DisplayAll(articles, 1, uid,
                    [st EXCEPT !.session = [has_view_tracked |-> TRUE, view_tracked |-> {}]],
                    store_ok)

\* display_advanced_search_interface, lines 1662 and 1719-1726: results of a
\* submitted search keep the view_tracked set of the session
display_advanced_search_interface(submitted, articles, uid, st, store_ok) ==
    IF ~submitted \/ articles = << >> THEN st
    ELSE DisplayAll(articles, 1, uid,
                    [st EXCEPT !.session =
                        [has_view_tracked |-> TRUE,
                         view_tracked |-> IF st.session.has_view_tracked
                                          THEN st.session.view_tracked ELSE {}]],
                    store_ok)

\* the lists of articles a feed or a search shows
ShownLists == DistinctSeqsUpTo(SessionUrls \cup {""}, MaxShown)

(***************************************************************************)
(* The notification panel.  A headline is the article fetch_top_headlines  *)
(* returns for one category, or None; for_user names the user for whose    *)
(* categories it was fetched (history).                                    *)
(***************************************************************************)
Headline(u, p) == [tag |-> "article", url |-> Url(u), publishedAt |-> p, for_user |-> ""]

NoArticle == [tag |-> "None", url |-> None, publishedAt |-> None, for_user |-> ""]

\* what fetch_top_headlines(category, page_size=1) returns
Headlines ==
    { NoArticle,
      Headline("b1", IsoZ(1)),
      Headline("b2", IsoZ(2)),
      Headline("b3", None),
      Headline("b4", Str(<<"yesterday">>)),
      Headline("b5", IsoNaive(3)) }

\* the headlines of the user's categories, in the order of the preferences
HeadlineLists == SeqsUpTo(Headlines, MaxCategories)

\* lines 1196-1213, from category number i on, with the latest article and
\* timestamp found so far (has_latest: a timestamp above datetime.min)
RECURSIVE LatestOf(_, _, _, _, _)
LatestOf(headlines, i, latest_article, has_latest, latest_timestamp_utc) ==
    IF i > Len(headlines) THEN latest_article
    ELSE LET article == headlines[i]
             p == article.publishedAt
         IN  IF article.tag = "None" \/ ~Truthy(p)
             THEN LatestOf(headlines, i + 1, latest_article, has_latest, latest_timestamp_utc)
             ELSE IF p.tag = "str"          \* fromisoformat raises ValueError
             THEN LatestOf(headlines, i + 1, latest_article, has_latest, latest_timestamp_utc)
             ELSE IF p.tag = "isoNaive"     \* naive > aware raises TypeError
             THEN LatestOf(headlines, i + 1, latest_article, has_latest, latest_timestamp_utc)
             ELSE IF ~has_latest \/ p.t > latest_timestamp_utc
             THEN LatestOf(headlines, i + 1, article, TRUE, p.t)
             ELSE LatestOf(headlines, i + 1, latest_article, has_latest, latest_timestamp_utc)

\* what the loop of lines 1196-1213 can end with, over the headlines the
\* categories' requests can return
LatestArticles == { LatestOf(headlines, 1, NoArticle, FALSE, 0) : headlines \in HeadlineLists }

\* get_latest_breaking_news_for_user, lines 1172-1219: latest_article is
\* what the loop over the user's categories ends with
get_latest_breaking_news_for_user(uid, latest_article) ==
    IF uid = "" \/ latest_article.tag = "None" THEN NoArticle
    ELSE [latest_article EXCEPT !.for_user = uid]

\* st.session_state without the two keys of the panel
NoNotificationState ==
    [has_last_check |-> FALSE, last_notification_check |-> 0,
     has_current |-> FALSE, current_notification_article |-> NoArticle]

\* lines 1093-1112 with the test of the url left out
UpdateNotification_Always(ns, latest) ==
    IF latest.tag # "None"
    THEN [state |-> [ns EXCEPT !.current_notification_article = latest], rerun |-> TRUE]
    ELSE [state |-> [ns EXCEPT !.current_notification_article = latest], rerun |-> FALSE]

\* lines 1093-1112: the stored article is replaced by a fetched article of
\* another url, and then the script reruns
UpdateNotification(ns, latest) ==
    LET current_displayed_url ==
            IF ns.current_notification_article.tag # "None"
            THEN ns.current_notification_article.url ELSE None
        new_fetched_url == IF latest.tag # "None" THEN latest.url ELSE None
    IN  IF Truthy(new_fetched_url) /\ new_fetched_url # current_displayed_url
        THEN [state |-> [ns EXCEPT !.current_notification_article = latest], rerun |-> TRUE]
        ELSE [state |-> ns, rerun |-> FALSE]

\* lines 1086-1088 with a check on every run
IntervalHasPassed_Always(current_time, last_notification_check) == TRUE

\* line 1086
IntervalHasPassed(current_time, last_notification_check) ==
    current_time - last_notification_check > CHECK_INTERVAL_SECONDS

\* notification_panel_component, lines 1062-1112: enabled is
\* prefs.get('notifications', False), latest_article is what the loop over
\* the categories ends with if the panel checks
notification_panel_component(uid, ns, enabled, current_time, latest_article) ==
    IF uid = "" \/ ~enabled
    THEN [state |-> ns, rerun |-> FALSE, checked |-> FALSE, fetched |-> NoArticle]
    ELSE LET ns1 == [has_last_check |-> TRUE,
                     last_notification_check |->
                         IF ns.has_last_check THEN ns.last_notification_check ELSE 0,
                     has_current |-> TRUE,
                     current_notification_article |->
                         IF ns.has_current THEN ns.current_notification_article ELSE NoArticle]
         IN  IF IntervalHasPassed(current_time, ns1.last_notification_check)
             THEN LET latest == get_latest_breaking_news_for_user(uid, latest_article)
                      upd == UpdateNotification(
                                 [ns1 EXCEPT !.last_notification_check = current_time], latest)
                  IN  [state |-> upd.state, rerun |-> upd.rerun, checked |-> TRUE,
                       fetched |-> latest]
             ELSE [state |-> ns1, rerun |-> FALSE, checked |-> FALSE, fetched |-> NoArticle]

\* one script run for the logged-in user (main_app, lines 1734-1750): a
\* first load, a rerun after a button click, a feed refresh or a submitted
\* search.  The notification panel runs first; when it calls st.rerun() the
\* run ends there and the pages are not rendered.  shown are the lists a
\* page may show, notifications the values the user's preference may have.
MainApp(shown, notifications) ==
    /\ runs < MaxRuns
    /\ user_id # ""
    /\ \E enabled \in notifications, feed \in shown, submitted \in BOOLEAN, store_ok \in BOOLEAN :
       \E latest_article \in IF enabled THEN LatestArticles ELSE {NoArticle},
          found \in IF submitted THEN shown ELSE {<< >>} :
          LET panel == notification_panel_component(user_id, notification_state, enabled,
                                                    clock, latest_article)
              st0 == [session |-> session_state, records |-> view_records]
              st1 == display_regular_news_feed(feed, user_id, st0, store_ok)
              st2 == display_advanced_search_interface(submitted, found, user_id, st1, store_ok)
          IN  /\ notification_state' = panel.state
              /\ panel_log' = IF enabled
                              THEN Append(panel_log, [uid |-> user_id, at |-> clock,
                                                      checked |-> panel.checked,
                                                      fetched |-> panel.fetched])
                              ELSE panel_log
              /\ IF panel.rerun
                 THEN UNCHANGED << session_state, view_records >>
                 ELSE /\ session_state' = st2.session
                      /\ view_records' = st2.records
    /\ runs' = runs + 1
    /\ UNCHANGED << user_id, all_articles, candidate_pool, activity_log, pc, locals,
                    result, end_line, exc, accounts, submission, clock >>
    /\ UNCHANGED storeVars

\* the script runs of a user who has notifications off, the default
main_app == MainApp(ShownLists, {FALSE})

InitSession ==
    /\ user_id = "alice"
    /\ activity_log = << >>
    /\ all_articles = << >>
    /\ InitCall
    /\ InitSessionState
    /\ InitAccountState
    /\ InitStoreState

NextSession == main_app

SpecSession == InitSession /\ [][NextSession]_vars

(***************************************************************************)
(* Calls over activity records of which some lack a url or a text: the     *)
(* store is written by other clients too, and get_user_activity hands over *)
(* whatever the documents hold.                                            *)
(***************************************************************************)
ProfileInteractions ==
    { Interaction(Str(<< >>), Str(<<"Rocket", "launch", "today">>), None, "like"),
      Interaction(Absent, Str(<<"bakery">>), None, "save"),
      Interaction(Url("r4"), None, Str(<< >>), "like"),
      Interaction(Url("f1"), Str(<<"daily", "news">>), None, "save") }

InitProfile ==
    /\ user_id = "alice"
    /\ activity_log \in DistinctSeqsUpTo(ProfileInteractions, MaxHist)
    /\ \E base \in DistinctSeqsUpTo(RankArticles, MaxRank), n \in {0, SmallPad} :
          all_articles = base \o [ i \in 1..n |-> FillerId(i) ]
    /\ InitCall
    /\ InitSessionState
    /\ InitAccountState
    /\ InitStoreState

SpecProfile == InitProfile /\ [][Next]_vars

(***************************************************************************)
(* The activity collection.  A document has an id of its own, the user     *)
(* whose collection holds it, and the fields track_user_activity writes    *)
(* (of which the model keeps the url, the title, the description, the      *)
(* action and the timestamp).  SERVER_TIMESTAMP is the time of the store's *)
(* server: a later write gets a timestamp that is not smaller.             *)
(***************************************************************************)
\* what a caller passes as article: None, a string, the empty dict, dicts
\* without a usable url, and a well-formed article
TrackArguments ==
    { [kind |-> "None", url |-> Absent,        title |-> Absent],
      [kind |-> "str",  url |-> Absent,        title |-> Absent],
      [kind |-> "dict", url |-> Absent,        title |-> Absent],
      [kind |-> "dict", url |-> None,          title |-> Str(<<"bakery">>)],
      [kind |-> "dict", url |-> Str(<< >>),    title |-> Str(<<"bakery">>)],
      [kind |-> "dict", url |-> Url("s1"),     title |-> Str(<<"Rocket", "launch">>)] }

\* the action types callers pass: two of the valid ones and another
ActionTypes == {"view", "like", "share"}

StoreUserIds == {"", "alice", "bob"}

\* line 506, negated, with the url check left out
is_valid_data_UrlUnchecked(uid, article) ==
    /\ uid # ""
    /\ article.kind = "dict"
    /\ ~(article.url.tag = "absent" /\ article.title.tag = "absent")

\* line 506, negated: a user id, a non-empty dict, and a url in it
is_valid_data(uid, article) ==
    /\ uid # ""
    /\ article.kind = "dict"
    /\ ~(article.url.tag = "absent" /\ article.title.tag = "absent")
    /\ Truthy(Get(article.url))

\* lines 515-526
activity_data(article, action_type, ts) ==
    [article_title |-> Get(article.title), article_description |-> None,
     article_url |-> Get(article.url), action_type |-> action_type, timestamp |-> ts]

\* track_user_activity on the documents of the store: invalid data and an
\* unknown action return before the store is touched, and an exception of
\* the store is caught
track_user_activity_docs(uid, article, action_type, docs, ts, store_ok) ==
    IF ~is_valid_data(uid, article) THEN docs
    ELSE IF action_type \notin valid_actions THEN docs
    ELSE IF ~store_ok THEN docs
    ELSE docs \cup { [id |-> Cardinality(docs) + 1, uid |-> uid,
                      data |-> activity_data(article, action_type, ts)] }

\* db.collection("users").document(uid).collection("activity")
Collection(docs, uid) == { d \in docs : d.uid = uid }

\* order_by("timestamp", direction=DESCENDING), then to_dict() of each
\* document: the orders of the documents in which no timestamp is followed
\* by a larger one (documents of one timestamp come in the order of their
\* ids, which are random)
OrderByTimestampDesc(docs) ==
    LET n == Cardinality(docs)
    IN  { [ i \in 1..n |-> o[i].data ] :
            o \in { q \in [1..n -> docs] :
                      /\ \A i, j \in 1..n : i # j => q[i] # q[j]
                      /\ \A i, j \in 1..n : i < j => q[i].data.timestamp >= q[j].data.timestamp } }

\* the latest timestamp the server has given out
LastTimestamp(docs) ==
    IF docs = {} THEN 0
    ELSE CHOOSE t \in { d.data.timestamp : d \in docs } :
             \A d \in docs : d.data.timestamp <= t

\* one call of track_user_activity, with any arguments
TrackUserActivity ==
    /\ Cardinality(activity_docs) < MaxDocs
    /\ \E uid \in StoreUserIds, article \in TrackArguments, action_type \in ActionTypes,
          store_ok \in BOOLEAN, ts \in {LastTimestamp(activity_docs), LastTimestamp(activity_docs) + 1} :
          /\ activity_docs' = track_user_activity_docs(uid, article, action_type, activity_docs,
                                                       ts, store_ok)
          /\ call' = [op |-> "track_user_activity", uid |-> uid, article |-> article,
                      action_type |-> action_type]
    /\ UNCHANGED << user_id, all_articles, candidate_pool, activity_log, pc, locals,
                    result, end_line, exc >>
    /\ UNCHANGED << sessionVars, accountVars >>

\* one call of get_user_activity, with any user id and limit
GetUserActivity ==
    /\ \E uid \in StoreUserIds, limit \in 1..MaxLimit, store_ok \in BOOLEAN :
          \E log \in OrderByTimestampDesc(Collection(activity_docs, uid)) :
              call' = [op |-> "get_user_activity", uid |-> uid, limit |-> limit,
                       store_ok |-> store_ok,
                       returned |-> get_user_activity(uid, log, limit, store_ok)]
    /\ UNCHANGED << user_id, all_articles, candidate_pool, activity_log, pc, locals,
                    result, end_line, exc >>
    /\ UNCHANGED << sessionVars, accountVars, activity_docs >>

InitStore ==
    /\ user_id = ""
    /\ activity_log = << >>
    /\ all_articles = << >>
    /\ InitCall
    /\ InitSessionState
    /\ InitAccountState
    /\ InitStoreState

NextStore ==
    \/ TrackUserActivity
    \/ GetUserActivity

SpecStore == InitStore /\ [][NextStore]_vars

(***************************************************************************)
(* The "For You" feed (lines 1503-1520): fetch_news gets the candidates    *)
(* from NewsAPI and hands them to get_personalized_recommendations.        *)
(***************************************************************************)
\* the articles of a NewsAPI response: two with one url, well-formed ones,
\* one without url key, and the entries of RawDicts
ResponseArticles == {1, 2, 10, 11, 6, -1, -2, -3}

\* the outcome of requests.get: a JSON body with status ok or error, or an
\* exception (timeout, HTTP error, invalid JSON)
Responses ==
    { [status |-> st, articles |-> l \o [ i \in 1..n |-> FillerId(i) ]] :
        st \in {"ok", "error", "raised"}, l \in DistinctSeqsUpTo(ResponseArticles, MaxRank),
        n \in {0, SmallPad} }

\* the filter of lines 412-415
IsListed(article) ==
    /\ Get(Dict(article).title) # Str(<<"[Removed]">>)
    /\ Truthy(Get(Dict(article).url))

\* fetch_news, lines 370-416, with a configured API key
fetch_news(query, response) ==
    IF query = "" THEN << >>
    ELSE IF response.status # "ok" THEN << >>
    ELSE SelectSeq(response.articles, IsListed)

\* lines 1510-1518: candidate_articles = fetch_news(...), passed to the engine
FetchNews ==
    /\ pc = "fetch"
    /\ \E query \in {"", "general"}, response \in Responses :
          /\ all_articles' = fetch_news(query, response)
          /\ candidate_pool' = all_articles'
    /\ pc' = "start"
    /\ UNCHANGED << user_id, activity_log, locals, result, end_line, exc >>
    /\ UNCHANGED << sessionVars, accountVars, storeVars >>

InitFeed ==
    /\ user_id = "alice"
    /\ activity_log \in DistinctSeqsUpTo(RankInteractions, MaxHist)
    /\ all_articles = << >>
    /\ candidate_pool = << >>
    /\ pc = "fetch"
    /\ user_activity = << >>
    /\ liked_keywords = {} /\ saved_keywords = {}
    /\ viewed_keywords = {} /\ disliked_keywords = {}
    /\ scored_articles = << >>
    /\ recommended_articles = << >>
    /\ result = << >>
    /\ end_line = 0
    /\ exc = ""
    /\ InitSessionState
    /\ InitAccountState
    /\ InitStoreState

NextFeed ==
    \/ FetchNews
    \/ EarlyReturn
    \/ NoActivityFallback
    \/ ExtractKeywords
    \/ ScoreArticles
    \/ RankAndFilter
    \/ Backfill
    \/ ReturnTop

SpecFeed == InitFeed /\ [][NextFeed]_vars

(***************************************************************************)
(* Authentication (auth_component, lines 840-981) and the script runs of   *)
(* a browser session in which users log in and out.  A submission of the   *)
(* auth form is a script run; the form is shown only while no user is      *)
(* logged in, the Sign Out button only while one is.                       *)
(***************************************************************************)
\* what is typed into the form: the addresses of two users, nothing, an
\* address without "@", one without a dot after the "@", one that starts
\* with "@", and one with a second "@" at its end
Emails ==
    { AliceEmail, BobEmail, << >>, << "a", "x" >>, << "a", "@", "x" >>,
      << "@", "x", ".", "y" >>, << "a", "@", "x", ".", "y", "@" >> }

\* nothing, one character, five characters, six characters
Passwords ==
    { << >>, << "x" >>, << "p", "w", "1", "2", "3" >>, << "s", "e", "c", "r", "e", "t" >> }

\* re.match(r"[^@]+@[^@]+\.[^@]+", email): a prefix of email matches
re_match_email(email) ==
    \E i, j \in 1..Len(email) :
        /\ 1 < i /\ i + 1 < j /\ j < Len(email)
        /\ \A k \in 1..(i - 1) : email[k] # "@"
        /\ email[i] = "@"
        /\ \A k \in (i + 1)..(j - 1) : email[k] # "@"
        /\ email[j] = "."
        /\ email[j + 1] # "@"

\* the check of an address by auth.get_user_by_email and auth.create_user
\* (ValueError otherwise): one "@", with something on both sides
auth_accepts(email) ==
    /\ Cardinality({ k \in 1..Len(email) : email[k] = "@" }) = 1
    /\ email[1] # "@" /\ email[Len(email)] # "@"

\* lines 873-880: the form's validation lets the submission through
PassesValidation(email, password) ==
    /\ email # << >> /\ password # << >>
    /\ re_match_email(email)

\* a submission with choice "Login", lines 872-920, of an address and a
\* password out of emails and passwords: auth_ok is whether Firebase
\* answers; the password is not verified
Login(emails, passwords) ==
    /\ user_id = ""
    /\ \E email \in emails, password \in passwords, auth_ok \in BOOLEAN :
          LET raised == IF ~PassesValidation(email, password) THEN ""
                        ELSE IF ~auth_accepts(email) THEN "ValueError"
                        ELSE IF ~auth_ok THEN "FirebaseError"
                        ELSE IF email \notin accounts THEN "NotFoundError"
                        ELSE ""
          IN  /\ submission' = [choice |-> "Login", email |-> email, password |-> password,
                                raised |-> raised]
              /\ IF PassesValidation(email, password) /\ raised = ""
                 THEN user_id' = Uid(email)
                 ELSE UNCHANGED user_id
    /\ UNCHANGED << all_articles, candidate_pool, activity_log, pc, locals, result, end_line, exc >>
    /\ UNCHANGED << sessionVars, accounts, notification_state, clock, panel_log, storeVars >>

\* a submission with choice "Sign Up" that logs the new user in
SignUp_LogsIn(emails, passwords) ==
    /\ user_id = ""
    /\ \E email \in emails, password \in passwords, auth_ok \in BOOLEAN :
          LET raised == IF ~PassesValidation(email, password) THEN ""
                        ELSE IF Len(password) < MIN_PASSWORD_LEN THEN ""
                        ELSE IF ~auth_accepts(email) THEN "ValueError"
                        ELSE IF ~auth_ok THEN "FirebaseError"
                        ELSE IF email \in accounts THEN "EmailAlreadyExistsError"
                        ELSE ""
          IN  /\ submission' = [choice |-> "Sign Up", email |-> email, password |-> password,
                                raised |-> raised]
              /\ IF /\ PassesValidation(email, password)
                    /\ Len(password) >= MIN_PASSWORD_LEN
                    /\ raised = ""
                 THEN accounts' = accounts \cup {email} /\ user_id' = Uid(email)
                 ELSE UNCHANGED << accounts, user_id >>
    /\ UNCHANGED << all_articles, candidate_pool, activity_log, pc, locals, result,
                    end_line, exc >>
    /\ UNCHANGED << sessionVars, notification_state, clock, panel_log, storeVars >>

\* a submission with choice "Sign Up", lines 872-880 and 922-981: a new
\* account is created and the user is not logged in
SignUp(emails, passwords) ==
    /\ user_id = ""
    /\ \E email \in emails, password \in passwords, auth_ok \in BOOLEAN :
          LET raised == IF ~PassesValidation(email, password) THEN ""
                        ELSE IF Len(password) < MIN_PASSWORD_LEN THEN ""
                        ELSE IF ~auth_accepts(email) THEN "ValueError"
                        ELSE IF ~auth_ok THEN "FirebaseError"
                        ELSE IF email \in accounts THEN "EmailAlreadyExistsError"
                        ELSE ""
          IN  /\ submission' = [choice |-> "Sign Up", email |-> email, password |-> password,
                                raised |-> raised]
              /\ IF /\ PassesValidation(email, password)
                    /\ Len(password) >= MIN_PASSWORD_LEN
                    /\ raised = ""
                 THEN accounts' = accounts \cup {email}
                 ELSE UNCHANGED accounts
    /\ UNCHANGED << user_id, all_articles, candidate_pool, activity_log, pc, locals, result,
                    end_line, exc >>
    /\ UNCHANGED << sessionVars, notification_state, clock, panel_log, storeVars >>

\* a click on Sign Out that leaves the notification article in the session
SignOut_KeepsNotification ==
    /\ user_id # ""
    /\ user_id' = ""
    /\ session_state' = [has_view_tracked |-> FALSE, view_tracked |-> {}]
    /\ notification_state' = [notification_state EXCEPT !.has_last_check = FALSE,
                                                        !.last_notification_check = 0]
    /\ UNCHANGED << all_articles, candidate_pool, activity_log, pc, locals, result, end_line, exc >>
    /\ UNCHANGED << view_records, runs, accounts, submission, clock, panel_log, storeVars >>

\* a click on Sign Out, lines 853-861
SignOut ==
    /\ user_id # ""
    /\ user_id' = ""
    /\ session_state' = [has_view_tracked |-> FALSE, view_tracked |-> {}]
    /\ notification_state' = NoNotificationState
    /\ UNCHANGED << all_articles, candidate_pool, activity_log, pc, locals, result, end_line, exc >>
    /\ UNCHANGED << view_records, runs, accounts, submission, clock, panel_log, storeVars >>

\* time passes between two script runs
Tick ==
    /\ clock < MaxClock
    /\ clock' = clock + CHECK_INTERVAL_SECONDS \div 2
    /\ UNCHANGED << user_id, all_articles, candidate_pool, activity_log, pc, locals, result,
                    end_line, exc >>
    /\ UNCHANGED << sessionVars, accounts, submission, notification_state, panel_log, storeVars >>

\* a browser session that starts with nobody logged in
InitAccount ==
    /\ user_id = ""
    /\ activity_log = << >>
    /\ all_articles = << >>
    /\ InitCall
    /\ InitSessionState
    /\ InitAccountState
    /\ InitStoreState

NextAuth ==
    \/ Login(Emails, Passwords)
    \/ SignUp(Emails, Passwords)
    \/ SignOut

\* the submissions of the auth form and the clicks on Sign Out
SpecAuth == InitAccount /\ [][NextAuth]_vars

\* the lists the pages show in the sessions of SpecAccount and SpecNotify
AccountShownLists == { << >>, << "s1" >> }

\* the password typed in the sessions of SpecAccount
AccountPasswords == { << "s", "e", "c", "r", "e", "t" >> }

NextAccount ==
    \/ Login({AliceEmail, BobEmail}, AccountPasswords)
    \/ SignUp({BobEmail}, AccountPasswords)
    \/ SignOut
    \/ MainApp(AccountShownLists, BOOLEAN)

\* the script runs of a browser session in which two users log in and out
SpecAccount == InitAccount /\ [][NextAccount]_vars

\* the session of a user who has just logged in
InitNotify ==
    /\ user_id = "alice"
    /\ activity_log = << >>
    /\ all_articles = << >>
    /\ InitCall
    /\ InitSessionState
    /\ InitAccountState
    /\ InitStoreState

NextNotify ==
    \/ MainApp(AccountShownLists, BOOLEAN)
    \/ Tick
    \/ SignOut

\* the script runs of one logged-in session up to its Sign Out, and the
\* time between them
SpecNotify == InitNotify /\ [][NextNotify]_vars

(***************************************************************************)
(* Vocabulary of the properties.  The order "may precede" is stated on the *)
(* publication times themselves, not on the sort keys of the code.         *)
(***************************************************************************)
Range(s) == { s[i] : i \in 1..Len(s) }

Count(s, a) == Cardinality({ i \in 1..Len(s) : s[i] = a })

HasDate(a) == Dict(a).publishedAt.tag = "isoZ"

MissingDate(a) == Dict(a).publishedAt.tag = "absent"

NullDate(a) == Dict(a).publishedAt.tag = "None"

\* a may stand before b in a list ordered by publishedAt descending, missing
\* dates last
InRecencyOrder(a, b) ==
    /\ HasDate(a) /\ HasDate(b) => Dict(a).publishedAt.t >= Dict(b).publishedAt.t
    /\ ~(MissingDate(a) /\ HasDate(b))

\* out is pool ordered by publishedAt descending and cut to the page size
IsRecencyFallback(out, pool) ==
    /\ Len(out) = Min(Len(pool), DEFAULT_PAGE_SIZE)
    /\ \A a \in Range(out) : Count(out, a) <= Count(pool, a)
    /\ \A i, j \in 1..Len(out) : i < j => InRecencyOrder(out[i], out[j])
    /\ \A a \in Range(pool) :
          Count(out, a) < Count(pool, a) => \A i \in 1..Len(out) : InRecencyOrder(out[i], a)

\* the urls of the articles of a list that have one
UrlsOf(s) == { Dict(s[i]).url : i \in { j \in 1..Len(s) : Dict(s[j]).url.tag # "absent" } }

\* the scored candidates that qualify by score
Qualifying == { i \in 1..Len(scored_articles) : scored_articles[i].score > 0 }

\* the call went through ranking and returned, and backfill was needed
BackfillRan ==
    pc = "done" /\ end_line = 726 /\ Cardinality(Qualifying) < min_recommendations

LikeCount(activity) ==
    Cardinality({ i \in 1..Len(activity) : activity[i].action_type = "like" })

(***************************************************************************)
(* C1.  The returned list has at most DEFAULT_PAGE_SIZE articles, for      *)
(* every user id (an absent one too), history and pool.                    *)
(***************************************************************************)
C1_AtMostPageSize == pc = "done" => Len(result) <= DEFAULT_PAGE_SIZE

(***************************************************************************)
(* C2.  No article url appears twice in the returned list, whether or not  *)
(* the pool repeats a url.                                                 *)
(***************************************************************************)
C2_NoDuplicateUrl ==
    pc = "done" =>
        \A i, j \in 1..Len(result) :
            i < j /\ Dict(result[i]).url.tag # "absent" => Dict(result[i]).url # Dict(result[j]).url

(***************************************************************************)
(* C3.  A pool of at least one article gives a non-empty returned list.    *)
(***************************************************************************)
C3_NonEmptyResult == pc = "done" /\ candidate_pool # << >> => result # << >>

(***************************************************************************)
(* C4.  The call never raises, whatever the articles and interactions lack.*)
(***************************************************************************)
C4_NeverRaises == pc # "raised"

(***************************************************************************)
(* C5.  With an absent user id or an empty pool the returned list is the   *)
(* pool ordered by publishedAt descending, cut to DEFAULT_PAGE_SIZE.       *)
(***************************************************************************)
C5_NoUserRecencyFallback ==
    pc = "done" /\ (user_id = "" \/ candidate_pool = << >>)
        => IsRecencyFallback(result, candidate_pool)

C7_FewLikesRecencyFallback ==
    pc = "done" /\ end_line # 626 /\ LikeCount(user_activity) < 3
        => IsRecencyFallback(result, candidate_pool)

(***************************************************************************)
(* C8.  When no interaction of the history, or no candidate, has any text, *)
(* the returned list is the recency fallback over all candidates.          *)
(***************************************************************************)
C8_NoTextRecencyFallback ==
    /\ pc = "done"
    /\ user_activity # << >>
    /\ \/ \A i \in 1..Len(user_activity) : activity_text(user_activity[i]) = << >>
       \/ \A a \in Range(candidate_pool) : article_text(a) = << >>
    => IsRecencyFallback(result, candidate_pool)

(***************************************************************************)
(* C9.  When fewer than min_recommendations candidates qualify by score,   *)
(* a pool of at least min_recommendations distinct urls (candidates left   *)
(* out of scoring for empty text included) gives exactly                   *)
(* min_recommendations articles, and a smaller pool is returned whole.     *)
(***************************************************************************)
C9_BackfillReachesMinimum ==
    BackfillRan =>
        IF Cardinality(UrlsOf(candidate_pool)) >= min_recommendations
        THEN Len(result) = min_recommendations
        ELSE UrlsOf(candidate_pool) \subseteq UrlsOf(result)

(***************************************************************************)
(* C10.  When backfill runs, the returned list is the qualifying scored    *)
(* candidates in descending score order, then backfilled candidates in     *)
(* descending publishedAt order, each backfilled one at least as recent as *)
(* every candidate left out of the list.                                   *)
(***************************************************************************)
C10_BackfillOrder ==
    BackfillRan =>
        LET q == Cardinality(Qualifying) IN
        /\ Len(result) >= q
        /\ \A i \in 1..q : result[i] = scored_articles[i].article /\ scored_articles[i].score > 0
        /\ \A i, j \in 1..q : i < j => scored_articles[i].score >= scored_articles[j].score
        /\ \A i, j \in (q+1)..Len(result) : i < j => InRecencyOrder(result[i], result[j])
        /\ \A j \in (q+1)..Len(result) :
              \A a \in Range(candidate_pool) \ Range(result) : InRecencyOrder(result[j], a)

(***************************************************************************)
(* Vocabulary of the properties of the ranking.                            *)
(***************************************************************************)
\* the call went through scoring, ranking and backfill and returned
Returned == pc = "done" /\ end_line = 726

\* the scoring loop has just run to its end: scored_articles holds the
\* score of every scored candidate
HasScores == pc = "rank"

\* the final score of a scored candidate
ScoreOf(a) ==
    scored_articles[CHOOSE i \in 1..Len(scored_articles) : scored_articles[i].article = a].score

IsScored(a) == \E i \in 1..Len(scored_articles) : scored_articles[i].article = a

\* a stands before b somewhere in the pool as it was passed
InputOrder(a, b) ==
    \E p, q \in 1..Len(candidate_pool) :
        p < q /\ candidate_pool[p] = a /\ candidate_pool[q] = b

\* a is ranked strictly before b in the returned list: b is not returned
\* without a, and every a stands before every b
RankedBefore(a, b) ==
    /\ b \in Range(result) => a \in Range(result)
    /\ \A i, j \in 1..Len(result) : result[i] = a /\ result[j] = b => i < j

Keywords(a) == keyword_regex_findall(article_text(a))

\* the text-match part of the score of an article in this call
TextMatch(a) == OverlapScore(a, liked_keywords, saved_keywords, viewed_keywords)

\* the recency boost a scored candidate received in this call, in half-points
AppliedBoost(a) == ScoreOf(a) - TextMatch(a)

\* age of a dated article in half-day ticks
Age(a) == NOW - Dict(a).publishedAt.t

\* the score the scoring loop gives an article under a history
ScoreGiven(activity, a) ==
    LET profile == Profile(activity)
    IN  ArticleScore(a, profile.liked, profile.saved, profile.viewed, NOW)

Max(a, b) == IF a >= b THEN a ELSE b

\* all interactions of a history reference one article url
SameArticle(activity) ==
    \A i, j \in 1..Len(activity) : activity[i].article_url = activity[j].article_url

ActionsOf(activity) == { activity[i].action_type : i \in 1..Len(activity) }

\* the history of the newest interaction of one action type alone
Only(activity, action) ==
    << activity[CHOOSE i \in 1..Len(activity) :
                    /\ activity[i].action_type = action
                    /\ \A j \in 1..(i-1) : activity[j].action_type # action] >>

\* publishedAt is less than a day before now
PublishedToday(a) == HasDate(a) /\ Age(a) >= 0 /\ Age(a) < 2 * ONE_DAY

\* publishedAt is no timestamp with an offset: the key is absent, or the
\* value is None, '', other text or a timestamp without offset
Unparsable(a) == Dict(a).publishedAt.tag # "isoZ"


(***************************************************************************)
(* C11.  The returned list is in non-increasing order of final score, and  *)
(* two returned candidates of exactly equal final score stand in their     *)
(* relative order from the pool.                                           *)
(***************************************************************************)
C11_ScoreOrderTiesInInputOrder ==
    Returned =>
        \A i, j \in 1..Len(result) :
            i < j =>
                /\ ScoreOf(result[i]) >= ScoreOf(result[j])
                /\ ScoreOf(result[i]) = ScoreOf(result[j]) /\ result[i] # result[j]
                      => InputOrder(result[i], result[j])

\* C11 as amended: the order of the pool is kept among the candidates of
\* equal positive score; the candidates of score 0, which come by backfill,
\* are in publishedAt order.
C11_ScoreOrderPositiveTiesInInputOrder ==
    Returned =>
        \A i, j \in 1..Len(result) :
            i < j =>
                /\ ScoreOf(result[i]) >= ScoreOf(result[j])
                /\ ScoreOf(result[i]) = ScoreOf(result[j]) /\ result[i] # result[j]
                   /\ ScoreOf(result[i]) > 0
                      => InputOrder(result[i], result[j])

\* a returned list with a strict descent of score followed by two different
\* candidates of one positive score
C11_Witness ==
    /\ Returned
    /\ \E i, j, k \in 1..Len(result) :
          /\ i < j /\ j < k /\ result[j] # result[k]
          /\ ScoreOf(result[i]) > ScoreOf(result[j])
          /\ ScoreOf(result[j]) = ScoreOf(result[k]) /\ ScoreOf(result[k]) > 0

DislikeChoices ==
    { Interaction(Url("r1"), Str(<<"Rocket", "launch", "today">>), None, "dislike"),
      Interaction(Url("r4"), Str(<<"bakery">>), None, "dislike"),
      Interaction(Url("f1"), Str(<<"daily", "news">>), None, "dislike") }

C13_DislikeNeverRaisesScore ==
    HasScores =>
        \A d \in DislikeChoices :
            \A i \in 1..Len(scored_articles) :
                ScoreGiven(<< d >> \o user_activity, scored_articles[i].article)
                    <= scored_articles[i].score

\* a dislike that lowers the score of a candidate of the call
C13_Witness ==
    /\ HasScores
    /\ \E d \in DislikeChoices :
          \E i \in 1..Len(scored_articles) :
              ScoreGiven(<< d >> \o user_activity, scored_articles[i].article)
                  < scored_articles[i].score

(***************************************************************************)
(* C14.  When several interactions reference one article url, only the     *)
(* strongest contributes to the profile: a url both disliked and viewed    *)
(* counts as a dislike alone, a url both liked and viewed counts as a like *)
(* alone, its terms not counted a second time for the view.                *)
(***************************************************************************)
C14_StrongestInteractionOnly ==
    HasScores /\ Len(user_activity) >= 2 /\ SameArticle(user_activity) =>
        /\ ActionsOf(user_activity) = {"dislike", "view"} =>
              \A a \in Range(candidate_pool) :
                  IsScored(a) => ScoreOf(a) = ScoreGiven(Only(user_activity, "dislike"), a)
        /\ ActionsOf(user_activity) = {"like", "view"} =>
              \A a \in Range(candidate_pool) :
                  IsScored(a) => ScoreOf(a) = ScoreGiven(Only(user_activity, "like"), a)

C16_TodayBeforeTwentyDaysOld ==
    Returned =>
        \A a, b \in Range(candidate_pool) :
            /\ IsScored(a) /\ IsScored(b)
            /\ PublishedToday(a)
            /\ HasDate(b) /\ Age(b) = 2 * 20
            /\ TextMatch(a) = TextMatch(b)
            => RankedBefore(a, b)

\* both are returned, the older one first in the pool, the one of today
\* first in the returned list
C16_Witness ==
    /\ Returned
    /\ \E a, b \in Range(result) :
          /\ PublishedToday(a)
          /\ HasDate(b) /\ Age(b) = 2 * 20
          /\ TextMatch(a) = TextMatch(b)
          /\ InputOrder(b, a) /\ ~InputOrder(a, b)
          /\ RankedBefore(a, b)

(***************************************************************************)
(* C17.  The recency bonus of a scored candidate is                        *)
(* max(0, 1 - days_old/14) * 0.1: linear in the age, strictly larger for a *)
(* 2-day-old article than for a 2.5-day-old one, zero from 14 days on.     *)
(* In half-points and half-day ticks: 140 * bonus = max(0, 28 - age).      *)
(***************************************************************************)
C17_LinearRecencyDecay ==
    HasScores =>
        /\ \A a \in Range(candidate_pool) :
              IsScored(a) /\ HasDate(a) /\ Age(a) >= 0
                  => 140 * AppliedBoost(a) = Max(0, 28 - Age(a))
        /\ \A a, b \in Range(candidate_pool) :
              /\ IsScored(a) /\ IsScored(b) /\ HasDate(a) /\ HasDate(b)
              /\ Age(a) = 4 /\ Age(b) = 5
              => AppliedBoost(a) > AppliedBoost(b)

(***************************************************************************)
(* C18.  A candidate whose publishedAt does not parse (absent key, empty   *)
(* string, null, other text, timestamp without offset) gets no recency     *)
(* boost and is still scored; the recency step never raises.               *)
(***************************************************************************)
C18_UnparsableDateNoBoostNoRaise ==
    /\ end_line # 688
    /\ HasScores =>
          \A a \in Range(candidate_pool) :
              ~Skipped(a) /\ Unparsable(a) => IsScored(a) /\ AppliedBoost(a) = 0

(***************************************************************************)
(* C19.  Within one browsing session a "view" record for an article url is *)
(* written at most once, across any sequence of script runs.               *)
(***************************************************************************)
C19_ViewLoggedAtMostOnce == \A u \in SessionUrls : view_records[u] <= 1

(***************************************************************************)
(* C20.  Concurrent calls do not interfere: a call that shares its list    *)
(* object with another call in flight returns what it returns when run     *)
(* alone on the list as it was passed.                                     *)
(***************************************************************************)
C20_ReturnsAsWhenRunAlone ==
    pc = "done" /\ end_line \in {632, 726}
        => result = ReturnedAlone(candidate_pool, user_activity)

\* the interactions that have a non-empty article_url and a non-empty text
WithUrlAndText(activity) ==
    LET Valid(r) == TextOrEmpty(r.article_url) # << >> /\ activity_text(r) # << >>
    IN  SelectSeq(activity, Valid)

(***************************************************************************)
(* C21.  An interaction whose article_url is empty or whose title and      *)
(* description are both empty contributes to no candidate's score: every   *)
(* score is the score the remaining interactions give.                     *)
(***************************************************************************)
C21_NoUrlOrNoTextContributesNothing ==
    HasScores =>
        \A i \in 1..Len(scored_articles) :
            scored_articles[i].score =
                ScoreGiven(WithUrlAndText(user_activity), scored_articles[i].article)

\* the fields of the documents a user's collection holds
StoredBy(uid) == { d.data : d \in Collection(activity_docs, uid) }

(***************************************************************************)
(* C22.  get_user_activity always returns a list: the empty list for an    *)
(* empty user id, for a user without activity and when the store raises;   *)
(* otherwise records of the user, newest first, at most `limit` of them    *)
(* (the newest ones, all of them when there are no more than `limit`).     *)
(***************************************************************************)
C22_ListNewestFirstAtMostLimit ==
    call.op = "get_user_activity" =>
        LET r == call.returned
            stored == Collection(activity_docs, call.uid)
        IN  /\ DOMAIN r = 1..Len(r)
            /\ (call.uid = "" \/ stored = {} \/ ~call.store_ok) => r = << >>
            /\ ~(call.uid = "" \/ stored = {} \/ ~call.store_ok) =>
                  /\ Len(r) = Min(call.limit, Cardinality(stored))
                  /\ \A i \in 1..Len(r) : r[i] \in StoredBy(call.uid)
                  /\ \A i, j \in 1..Len(r) : i < j => r[i].timestamp >= r[j].timestamp
                  /\ \A d \in stored :
                        Cardinality({ e \in stored : e.data.timestamp > d.data.timestamp }) >= Len(r)
                            => \A i \in 1..Len(r) : r[i].timestamp >= d.data.timestamp

\* a call that returned the newest record of a user who has an older one too
C22_Witness ==
    /\ call.op = "get_user_activity"
    /\ Len(call.returned) = 1
    /\ \E d \in Collection(activity_docs, call.uid) : d.data.timestamp < call.returned[1].timestamp

(***************************************************************************)
(* C23.  The candidate list fetch_news hands to the engine holds no two    *)
(* articles with the same url, no article titled '[Removed]' and no        *)
(* article without url.                                                    *)
(***************************************************************************)
C23_CandidatesDistinctAndListed ==
    pc # "fetch" =>
        /\ \A i, j \in 1..Len(candidate_pool) :
              i # j => Dict(candidate_pool[i]).url # Dict(candidate_pool[j]).url
        /\ \A i \in 1..Len(candidate_pool) :
              /\ Dict(candidate_pool[i]).title # Str(<<"[Removed]">>)
              /\ Dict(candidate_pool[i]).url.tag = "str"
              /\ Dict(candidate_pool[i]).url.s # << >>

(***************************************************************************)
(* C24.  In the list returned after ranking every article of positive      *)
(* score stands before every article of non-positive score, and an article *)
(* of non-positive score is returned only when fewer than                  *)
(* min_recommendations candidates have a positive score.                   *)
(***************************************************************************)
C24_PositiveBeforeNonPositive ==
    Returned =>
        /\ \A i, j \in 1..Len(result) :
              i < j /\ ScoreOf(result[j]) > 0 => ScoreOf(result[i]) > 0
        /\ (\E i \in 1..Len(result) : ScoreOf(result[i]) <= 0)
              => Cardinality(Qualifying) < min_recommendations

\* a returned list with candidates of positive score followed by a
\* backfilled candidate of score 0
C24_Witness ==
    /\ Returned
    /\ \E i, j \in 1..Len(result) :
          i < j /\ ScoreOf(result[i]) > 0 /\ ScoreOf(result[j]) <= 0

(***************************************************************************)
(* C25.  The call leaves the caller's list unchanged, the same elements in *)
(* the same order, on every path.                                          *)
(***************************************************************************)
C25_CallerListUnchanged == pc \in {"done", "raised"} => all_articles = candidate_pool

\* the arguments with which track_user_activity must write nothing
InvalidTrackCall(c) ==
    \/ c.uid = ""
    \/ c.article.kind # "dict"
    \/ ~Truthy(Get(c.article.url))
    \/ c.action_type \notin {"view", "save", "like", "dislike"}

(***************************************************************************)
(* C26.  Every record track_user_activity writes has a non-empty           *)
(* article_url and an action_type among view, save, like and dislike, and  *)
(* a call with an empty user id, an article that is no dict or has no url, *)
(* or another action type writes nothing.                                  *)
(***************************************************************************)
C26_OnlyValidRecordsWritten ==
    [][ /\ \A d \in activity_docs' \ activity_docs :
              /\ Truthy(d.data.article_url)
              /\ d.data.action_type \in {"view", "save", "like", "dislike"}
        /\ (call'.op = "track_user_activity" /\ InvalidTrackCall(call'))
              => activity_docs' = activity_docs ]_vars

\* the store after a call that wrote a record and a call with an unknown
\* action type that left it alone
C26_Witness ==
    /\ activity_docs # {}
    /\ call.op = "track_user_activity"
    /\ call.uid # "" /\ Truthy(Get(call.article.url))
    /\ call.action_type = "share"

\* an address of the shape local@domain.tld: one "@", after a first part,
\* and after it a dot with something before it and something after it
WellFormedEmail(e) ==
    \E i, j \in 1..Len(e) :
        /\ e[i] = "@" /\ e[j] = "." /\ i > 1 /\ j > i + 1 /\ j < Len(e)
        /\ \A k \in 1..Len(e) : k # i => e[k] # "@"

\* the article the session holds, None when the key is missing
StoredArticle(ns) == IF ns.has_current THEN ns.current_notification_article ELSE NoArticle

(***************************************************************************)
(* C27.  After Sign Out the session holds no user and none of the keys     *)
(* view_tracked, current_notification_article and last_notification_check, *)
(* and the notification article a session holds was always fetched for    *)
(* the user who is logged in: a user who logs in later in the same browser *)
(* session is never shown the article of the user before.                  *)
(***************************************************************************)
C27_SignOutClearsNotification ==
    [][ /\ (user_id # "" /\ user_id' = "") =>
               /\ ~session_state'.has_view_tracked
               /\ ~notification_state'.has_current
               /\ ~notification_state'.has_last_check
        /\ StoredArticle(notification_state').tag = "article" =>
               StoredArticle(notification_state').for_user = user_id' ]_vars

\* bob is logged in and is shown an article, in a browser session that has
\* shown alice an article before
C27_Witness ==
    /\ user_id = "bob"
    /\ StoredArticle(notification_state).tag = "article"
    /\ \E i \in 1..Len(panel_log) :
          panel_log[i].uid = "alice" /\ panel_log[i].fetched.tag = "article"

(***************************************************************************)
(* C28.  The session user becomes non-null only through a Login            *)
(* submission with a non-empty e-mail address and password, a well-formed  *)
(* address and an existing account; a Sign Up that creates an account, a   *)
(* failed Login and a validation error leave the session user as it was.   *)
(***************************************************************************)
C28_UserSetOnlyByValidLogin ==
    [][ /\ (user_id' # user_id /\ user_id' # "") =>
               /\ user_id = ""
               /\ submission'.choice = "Login"
               /\ submission'.email # << >> /\ submission'.password # << >>
               /\ WellFormedEmail(submission'.email)
               /\ submission'.email \in accounts
               /\ user_id' = Uid(submission'.email)
        /\ accounts' # accounts => user_id' = user_id
        /\ (user_id = "" /\ submission'.raised # "") => user_id' = "" ]_vars

\* bob is logged in: he signed up, was not logged in by that, and logged in
C28_Witness ==
    /\ user_id = "bob"
    /\ submission.choice = "Login" /\ submission.email = BobEmail
    /\ BobEmail \in accounts

\* the runs of the panel, among those logged, that checked for breaking news
Checks == { i \in 1..Len(panel_log) : panel_log[i].checked }

(***************************************************************************)
(* C29.  In one logged-in session any two breaking-news checks are more    *)
(* than CHECK_INTERVAL_SECONDS apart, whatever the number of script runs   *)
(* between them, and the first run of the panel with notifications enabled *)
(* checks.                                                                 *)
(***************************************************************************)
C29_ChecksMoreThanIntervalApart ==
    /\ \A i, j \in Checks :
          i < j => panel_log[j].at - panel_log[i].at > 180
    /\ panel_log # << >> => panel_log[1].checked

\* a check, a run of the panel exactly 180 seconds later that did not
\* check, and a later check
C29_Witness ==
    \E i, j, k \in 1..Len(panel_log) :
        /\ i < j /\ j < k
        /\ panel_log[i].checked /\ panel_log[k].checked
        /\ ~panel_log[j].checked /\ panel_log[j].at - panel_log[i].at = 180

(***************************************************************************)
(* C30.  Up to Sign Out the notification article of the session changes    *)
(* only in a check, to the article the check fetched, whose url differs    *)
(* from the stored one; a check that fetches nothing or an article of the  *)
(* stored url leaves the stored article as it is, and a stored article is  *)
(* never cleared.                                                          *)
(***************************************************************************)
C30_ReplacedOnlyByOtherUrl ==
    [][ user_id' # "" =>
          LET old     == StoredArticle(notification_state)
              new     == StoredArticle(notification_state')
              ran     == Len(panel_log') = Len(panel_log) + 1
              last    == panel_log'[Len(panel_log')]
          IN  /\ new # old =>
                    /\ ran /\ last.checked
                    /\ new = last.fetched
                    /\ new.tag = "article"
                    /\ new.url # old.url
              /\ (ran /\ last.checked /\ last.fetched.tag = "None") => new = old
              /\ (ran /\ last.checked /\ last.fetched.url = old.url) => new = old
              /\ old.tag = "article" => new.tag = "article" ]_vars

\* a stored article, kept by a later check that fetched nothing
C30_Witness ==
    /\ StoredArticle(notification_state).tag = "article"
    /\ \E i, j \in Checks :
          /\ i < j
          /\ panel_log[i].fetched = StoredArticle(notification_state)
          /\ panel_log[j].fetched.tag = "None"

====
